---- MODULE Spec2Model ----
(***************************************************************************)
(* Model of nionswift_plugin/nion_experimental_4dtools/Map4D.py: the       *)
(* "Map 4D" computation (Map4D.execute / Map4D.commit), the computation    *)
(* panel's "Select map graphic" button, and the "Map 4D" menu item.        *)
(*                                                                         *)
(* An n-dimensional array is a record [shape, at]: shape is the tuple of   *)
(* axis lengths and at maps every index tuple (0-based, as in numpy) to    *)
(* the element stored there.  Reshaping and ravelling are computed through *)
(* the C-order (row-major) offset of an index tuple, as numpy does.        *)
(***************************************************************************)
EXTENDS Integers, Sequences, FiniteSets

VARIABLES
    src,                \* execute's src.xdata: data, data_shape, calibrations
    map_regions,        \* the computation's 'map_regions' objects
    new_xdata,          \* Map4D.__new_xdata (None until execute has run)
    target,             \* the computation's referenced xdata 'target'
    needs_update,       \* an input changed since execute last ran
    target_display,     \* document_controller.target_display is set
    selected_graphics,  \* target_display.selected_graphics
    data_items,         \* the library's data items: uuid -> number of dimensions
    selected_display_item,      \* document_controller.selected_display_item
    computation_data_items,     \* Map4DMenuItem.__computation_data_items
    tool_tip_boxes,             \* Map4DMenuItem.__tool_tip_boxes
    listening,          \* __display_item_changed is connected to the focus event
    raised              \* str(e) of the exception menu_item_execute caught last ("": none)

computation_vars == <<src, map_regions, new_xdata, target, needs_update>>
panel_vars == <<target_display, selected_graphics>>
menu_vars == <<data_items, selected_display_item, computation_data_items,
               tool_tip_boxes, listening, raised>>
vars == <<computation_vars, panel_vars, menu_vars>>

\* Python's None, comparable with the records it stands in for
None == [none |-> TRUE]

----------------------------------------------------------------------------
(* Bounds of the model.                                                    *)

\* longest map_regions list a computation is created with
MaxRegions == 2
\* largest first element of an arange-filled source array
MaxBase == 0
\* most data items the library holds
MaxDataItems == 3

----------------------------------------------------------------------------
(* numpy arrays.                                                           *)

RECURSIVE Prod(_)
Prod(s) == IF s = <<>> THEN 1 ELSE Head(s) * Prod(Tail(s))

RECURSIVE SumSeq(_)
SumSeq(s) == IF s = <<>> THEN 0 ELSE Head(s) + SumSeq(Tail(s))

Size(shape) == Prod(shape)

\* np.ndindex(shape): every index tuple of an array of that shape
RECURSIVE Indices(_)
Indices(shape) ==
    IF shape = <<>> THEN {<<>>}
    ELSE {<<i>> \o rest : i \in 0..(Head(shape) - 1), rest \in Indices(Tail(shape))}

\* C-order offset of an index tuple: ((i1*n2 + i2)*n3 + i3)...
RECURSIVE OffsetFrom(_, _, _, _)
OffsetFrom(shape, idx, i, acc) ==
    IF i > Len(shape) THEN acc
    ELSE OffsetFrom(shape, idx, i + 1, acc * shape[i] + idx[i])

Offset(shape, idx) == OffsetFrom(shape, idx, 1, 0)

\* the index tuple at a C-order offset
Unravel(shape, off) ==
    [i \in 1..Len(shape) |->
        (off \div Prod(SubSeq(shape, i + 1, Len(shape)))) % shape[i]]

\* the slices data_shape[:2] and data_shape[2:]
Take2(s) == SubSeq(s, 1, IF Len(s) < 2 THEN Len(s) ELSE 2)
Drop2(s) == SubSeq(s, 3, Len(s))

\* np.reshape(a, shape): the same elements in the same C order
Reshape(a, shape) ==
    [shape |-> shape,
     at |-> [idx \in Indices(shape) |-> a.at[Unravel(a.shape, Offset(shape, idx))]]]

\* data_shape[:2] + (-1,): the -1 stands for whatever length keeps the size
FlattenedShape(shape) ==
    Take2(shape) \o <<Size(shape) \div Size(Take2(shape))>>

\* a.ravel(order='F'): the elements read column by column instead
RavelF(a) ==
    [shape |-> <<Size(a.shape)>>,
     at |-> [idx \in Indices(<<Size(a.shape)>>) |->
                a.at[[i \in 1..Len(a.shape) |->
                        (idx[1] \div Prod(SubSeq(a.shape, 1, i - 1))) % a.shape[i]]]]]

\* a.ravel(): the one-dimensional C-order view
Ravel(a) == Reshape(a, <<Size(a.shape)>>)

\* np.zeros(shape, dtype=np.bool_)
Zeros(shape) == [shape |-> shape, at |-> [idx \in Indices(shape) |-> FALSE]]

\* np.logical_or(a, b): a new array
LogicalOr(a, b) ==
    [shape |-> a.shape, at |-> [idx \in Indices(a.shape) |-> a.at[idx] \/ b.at[idx]]]

\* a.any()
Any(a) == \E idx \in Indices(a.shape) : a.at[idx]

\* np.arange(n)
ARange(n) == [i \in 1..n |-> i - 1]

\* np.arange(mask.size)[mask.ravel()]: the offsets where the mask is true, ascending
MaskedIndices(mask) ==
    LET flat == Ravel(mask)
    IN  SelectSeq(ARange(Size(mask.shape)), LAMBDA k : flat.at[<<k>>])

\* np.sum(data[..., ind], axis=-1) for a three-dimensional data
SumOverLast(data, ind) ==
    LET outer == Take2(data.shape)
    IN  [shape |-> outer,
         at |-> [idx \in Indices(outer) |->
                    SumSeq([j \in 1..Len(ind) |-> data.at[idx \o <<ind[j]>>]])]]

\* region.get_mask(shape): the pixels of the plane the graphic covers
GetMask(region, shape) ==
    [shape |-> shape, at |-> [idx \in Indices(shape) |-> idx \in region]]

\* np.sum(data[..., :-1], axis=-1): the last element of the axis left out
SumLastAxisButOne(data) == SumOverLast(data, ARange(data.shape[Len(data.shape)] - 1))

\* np.sum(data, axis=-1)
SumLastAxis(data) == SumOverLast(data, ARange(data.shape[Len(data.shape)]))

\* lines 68-70: the masks of all regions or-ed onto an all-false mask
RECURSIVE OrRegions(_, _, _)
OrRegions(mask_data, regions, shape) ==
    IF regions = <<>> THEN mask_data
    ELSE OrRegions(LogicalOr(mask_data, GetMask(Head(regions), shape)),
                   Tail(regions), shape)

CombinedMask(regions, shape) == OrRegions(Zeros(shape), regions, shape)

----------------------------------------------------------------------------
(* Map4D.execute and Map4D.commit.                                         *)

\* line 66: the source data with its last axes flattened into one
FlattenedData(s) == Reshape(s.data, FlattenedShape(s.data.shape))

\* lines 72-73 without the test of line 71: no pixel selected sums nothing
NewDataNoFallback(s, regions) ==
    SumOverLast(FlattenedData(s),
                MaskedIndices(CombinedMask(regions, Drop2(s.data.shape))))

\* the sums over each region's own mask added up: a pixel of two regions
\* counts twice
RECURSIVE SumPerRegion(_, _, _)
SumPerRegion(data, regions, shape) ==
    IF regions = <<>> THEN [idx \in Indices(Take2(data.shape)) |-> 0]
    ELSE LET head == SumOverLast(data, MaskedIndices(GetMask(Head(regions), shape))).at
             rest == SumPerRegion(data, Tail(regions), shape)
         IN  [idx \in DOMAIN rest |-> head[idx] + rest[idx]]

NewDataPerRegion(s, regions) ==
    IF Any(CombinedMask(regions, Drop2(s.data.shape)))
    THEN [shape |-> Take2(s.data.shape),
          at |-> SumPerRegion(FlattenedData(s), regions, Drop2(s.data.shape))]
    ELSE SumLastAxis(FlattenedData(s))

\* lines 71-78: the sum over the selected pixels, or over the whole frame
NewData(s, regions) ==
    LET data == FlattenedData(s)
        mask_data == CombinedMask(regions, Drop2(s.data.shape))
    IN  IF Any(mask_data)
        THEN SumOverLast(data, MaskedIndices(mask_data))
        ELSE SumLastAxis(data)

\* lines 79-81 with dimensional_calibrations[2:] in place of [:2]
NewXDataLastCalibrations(s, regions) ==
    [data |-> NewData(s, regions),
     dimensional_calibrations |-> Drop2(s.dimensional_calibrations),
     intensity_calibration |-> s.intensity_calibration]

\* lines 79-81: DataAndMetadata.new_data_and_metadata(...)
NewXData(s, regions) ==
    [data |-> NewData(s, regions),
     dimensional_calibrations |-> Take2(s.dimensional_calibrations),
     intensity_calibration |-> s.intensity_calibration]

\* an execute that adds its sums onto the xdata stored before
ExecuteAccumulating(s, regions, stored) ==
    [src |-> s,
     new_xdata |->
        IF stored = None THEN NewXData(s, regions)
        ELSE [NewXData(s, regions) EXCEPT
                !.data.at = [idx \in DOMAIN @ |-> @[idx] + stored.data.at[idx]]]]

\* an execute that zeroes the unselected pixels through the reshaped view,
\* which shares its memory with the source data
ExecuteMaskingInPlace(s, regions, stored) ==
    LET mask_data == CombinedMask(regions, Drop2(s.data.shape))
        keep(idx) == mask_data.at[Drop2(idx)]
        masked == [s EXCEPT !.data.at =
                     [idx \in DOMAIN @ |-> IF keep(idx) THEN @[idx] ELSE 0]]
    IN  IF Any(mask_data)
        THEN [src |-> masked, new_xdata |-> NewXData(s, regions)]
        ELSE [src |-> s, new_xdata |-> NewXData(s, regions)]

\* What execute leaves behind, given the xdata stored before: the source
\* (execute only reads through the reshaped view of its data) and the xdata
\* it stores.
ExecuteEffect(s, regions, stored) ==
    [src |-> s, new_xdata |-> NewXData(s, regions)]

\* region.get_mask is only known for a two-dimensional plane: with another
\* source the model runs execute with no regions, where it is never called.
Executable == Len(src.data.shape) = 4 \/ map_regions = <<>>

Execute ==
    /\ Executable
    /\ LET after == ExecuteEffect(src, map_regions, new_xdata)
       IN  /\ src' = after.src
           /\ new_xdata' = after.new_xdata
    /\ needs_update' = FALSE
    /\ UNCHANGED <<map_regions, target, panel_vars, menu_vars>>

Commit ==
    /\ new_xdata # None
    /\ target' = new_xdata
    /\ UNCHANGED <<src, map_regions, new_xdata, needs_update, panel_vars, menu_vars>>

----------------------------------------------------------------------------
(* The sources and region lists the model draws from.                      *)

Shapes4D == {<<2, 2, 2, 2>>, <<1, 2, 1, 3>>, <<2, 1, 3, 1>>}
ShapesNot4D == {<<2, 2, 2>>, <<1, 2, 2, 1, 2>>}

RECURSIVE Pow2(_)
Pow2(n) == IF n = 0 THEN 1 ELSE 2 * Pow2(n - 1)

\* np.arange(size).reshape(shape) + base
ARangeArray(shape, base) ==
    [shape |-> shape, at |-> [idx \in Indices(shape) |-> base + Offset(shape, idx)]]

\* every element a different power of two: no two pixel sets have the same sum
Pow2Array(shape) ==
    [shape |-> shape, at |-> [idx \in Indices(shape) |-> Pow2(Offset(shape, idx))]]

DataArrays(shape) ==
    {ARangeArray(shape, base) : base \in 0..MaxBase} \cup {Pow2Array(shape)}

Calibration(offset, scale, units) ==
    [offset |-> offset, scale |-> scale, units |-> units]

\* each axis with a calibration of its own
AxisCalibrations(n) ==
    [i \in 1..n |-> Calibration(i, 10 * i, IF i <= 2 THEN "nm" ELSE "mrad")]

\* no axis calibrated
NoCalibrations(n) == [i \in 1..n |-> Calibration(0, 1, "")]

Source(data, dimensional_calibrations, intensity_calibration) ==
    [data |-> data, dimensional_calibrations |-> dimensional_calibrations,
     intensity_calibration |-> intensity_calibration]

\* calibrated sources of every fill, and the uncalibrated plain arange
SourcesOf(shapes) ==
    UNION {{Source(d, AxisCalibrations(Len(shape)), Calibration(-1, 3, "counts")) :
                d \in DataArrays(shape)}
           \cup {Source(ARangeArray(shape, 0), NoCalibrations(Len(shape)),
                         Calibration(0, 1, ""))} :
           shape \in shapes}

Sources == SourcesOf(Shapes4D \cup ShapesNot4D)

\* a region is the set of pixels of the collection plane a graphic covers
Regions(plane) == SUBSET Indices(plane)

RegionLists(regions, n) == UNION {[1..k -> regions] : k \in 0..n}

----------------------------------------------------------------------------
(* The computation panel: the "Select map graphic" button.                 *)

\* the graphics of the target display, on a 2 x 2 collection plane: a point
\* at (0,0), a rectangle over the first row, a graphic outside the frame
DisplayGraphics == <<{<<0, 0>>}, {<<0, 0>>, <<0, 1>>}, {}>>

\* selected_graphics: the selected ones among the display's graphics, in order
Selections ==
    {LET picked == SelectSeq([i \in 1..Len(DisplayGraphics) |-> i], LAMBDA i : i \in chosen)
     IN  [j \in 1..Len(picked) |-> DisplayGraphics[picked[j]]] :
        chosen \in SUBSET (1..Len(DisplayGraphics))}

\* remove_item_from_objects('map_regions', 0) called once, without the loop
RemoveFirstOnly(objects) ==
    IF objects = <<>> THEN objects ELSE Tail(objects)

\* lines 33-37: remove_item_from_objects('map_regions', 0) until IndexError
RECURSIVE RemoveAllItems(_)
RemoveAllItems(objects) ==
    IF objects = <<>> THEN objects ELSE RemoveAllItems(Tail(objects))

\* lines 38-39: insert_item_into_objects('map_regions', 0, ...) for each graphic
RECURSIVE InsertGraphics(_, _)
InsertGraphics(objects, graphics) ==
    IF graphics = <<>> THEN objects
    ELSE InsertGraphics(<<Head(graphics)>> \o objects, Tail(graphics))

\* line 30: None without a target display; lines 31-32: None and [] are falsy
SelectButtonClicked ==
    LET graphics == IF target_display THEN selected_graphics ELSE <<>>
    IN  /\ IF graphics = <<>>
           THEN UNCHANGED <<map_regions, needs_update>>
           ELSE /\ map_regions' = InsertGraphics(RemoveAllItems(map_regions), graphics)
                /\ needs_update' = TRUE
        /\ UNCHANGED <<src, new_xdata, target, panel_vars, menu_vars>>

\* the user selects graphics on a display, or no display is the target
SelectionChanged ==
    /\ \E display \in BOOLEAN, graphics \in Selections :
          /\ target_display' = display
          /\ selected_graphics' = IF display THEN graphics ELSE <<>>
    /\ UNCHANGED <<computation_vars, menu_vars>>

----------------------------------------------------------------------------
(* The "Map 4D" menu item.                                                 *)

\* selected_display_item is None, or has no single data item
NoDisplayItem == 0

InitPanel ==
    /\ target_display = FALSE
    /\ selected_graphics = <<>>

InitMenu ==
    /\ data_items = <<>>
    /\ selected_display_item = NoDisplayItem
    /\ computation_data_items = <<>>
    /\ tool_tip_boxes = <<>>
    /\ listening = FALSE
    /\ raised = ""

\* numbers of dimensions of the data items the library gets (0 stands for an
\* item without xdata, as map_4D's new item is until its computation ran)
DataDimensions == {3, 4, 5}

SourceTip ==
    "Select one or multiple graphic(s) on the source data item and click Select"
Map4DTip == "Move the Pick graphic to change the data slice in the source data item."
WrongShapeTip == "This computation only works for 4D-data."
NoTip == ""

\* lines 110-118: the text for a tip id; any other id shows nothing
TipText(tip_id) ==
    CASE tip_id = "source" -> SourceTip
      [] tip_id = "map_4d" -> Map4DTip
      [] tip_id = "wrong_shape" -> WrongShapeTip
      [] OTHER -> NoTip

\* lines 106-125: the boxes held after __show_tool_tips(tip_id); posed tells
\* whether workspace.pose_tool_tip_box returned a box
ShowToolTips(tip_id, posed) ==
    IF TipText(tip_id) = NoTip THEN <<>>
    ELSE IF posed THEN <<TipText(tip_id)>> ELSE <<>>

\* lines 141-148: the error map_4D raises, "" when it raises none (a display
\* item with a data item always has its display data channel)
Map4DError(uuid) ==
    IF data_items[uuid] # 4 THEN "Data item must be 4D." ELSE ""

\* dict.update({source uuid: 'source', map uuid: 'map_4d'})
UpdateTips(tips, source_uuid, map_uuid) ==
    [k \in DOMAIN tips \cup {source_uuid, map_uuid} |->
        IF k = map_uuid THEN "map_4d"
        ELSE IF k = source_uuid THEN "source" ELSE tips[k]]

\* lines 127-138; map_4D's new data item (line 150) has no xdata yet
MenuItemExecute ==
    /\ selected_display_item # NoDisplayItem
    /\ Len(data_items) < MaxDataItems
    /\ \E posed \in BOOLEAN :
          LET uuid == selected_display_item
              error == Map4DError(uuid)
          IN  IF error = ""
              THEN /\ data_items' = Append(data_items, 0)
                   /\ computation_data_items' =
                         UpdateTips(computation_data_items, uuid, Len(data_items) + 1)
                   /\ tool_tip_boxes' = ShowToolTips("source", posed)
                   /\ listening' = TRUE
                   /\ raised' = ""
              ELSE /\ tool_tip_boxes' = ShowToolTips(error, posed)
                   /\ raised' = error
                   /\ UNCHANGED <<data_items, computation_data_items, listening>>
    /\ UNCHANGED <<selected_display_item, computation_vars, panel_vars>>

\* lines 99-104: the focused display item changed
DisplayItemChanged ==
    /\ listening
    /\ \E uuid \in 1..Len(data_items), posed \in BOOLEAN :
          /\ uuid \in DOMAIN computation_data_items
          /\ tool_tip_boxes' = ShowToolTips(computation_data_items[uuid], posed)
    /\ UNCHANGED <<data_items, selected_display_item, computation_data_items,
                   listening, raised, computation_vars, panel_vars>>

\* the library gets a data item
CreateDataItem ==
    /\ Len(data_items) < MaxDataItems
    /\ \E n \in DataDimensions : data_items' = Append(data_items, n)
    /\ UNCHANGED <<selected_display_item, computation_data_items, tool_tip_boxes,
                   listening, raised, computation_vars, panel_vars>>

\* the user selects a display item, or none
SelectDisplayItem ==
    /\ \E d \in {NoDisplayItem} \cup (1..Len(data_items)) : selected_display_item' = d
    /\ UNCHANGED <<data_items, computation_data_items, tool_tip_boxes,
                   listening, raised, computation_vars, panel_vars>>

PanelSources ==
    {s \in SourcesOf({<<2, 2, 2, 2>>}) :
        s.data = Pow2Array(<<2, 2, 2, 2>>) /\ s.dimensional_calibrations[1].units = "nm"}

PanelInit ==
    /\ src \in PanelSources
    /\ map_regions \in RegionLists({DisplayGraphics[i] : i \in 1..Len(DisplayGraphics)},
                                   MaxRegions)
    /\ new_xdata = None
    /\ target = None
    /\ needs_update = TRUE
    /\ InitPanel
    /\ InitMenu

PanelNext == SelectionChanged \/ SelectButtonClicked \/ Execute \/ Commit

PanelSpec == PanelInit /\ [][PanelNext]_vars

MenuInit ==
    /\ src \in PanelSources
    /\ map_regions = <<>>
    /\ new_xdata = None
    /\ target = None
    /\ needs_update = TRUE
    /\ InitPanel
    /\ InitMenu

MenuNext == MenuItemExecute \/ DisplayItemChanged \/ CreateDataItem \/ SelectDisplayItem

MenuSpec == MenuInit /\ [][MenuNext]_vars

----------------------------------------------------------------------------
(* The reduction alone: a computation created on any source and regions. *)

Init ==
    /\ src \in Sources
    /\ map_regions \in IF Len(src.data.shape) = 4
                       THEN RegionLists(Regions(Drop2(src.data.shape)), MaxRegions)
                       ELSE {<<>>}
    /\ new_xdata = None
    /\ target = None
    /\ needs_update = TRUE
    /\ InitPanel
    /\ InitMenu

Next == Execute \/ Commit

Spec == Init /\ [][Next]_vars

----------------------------------------------------------------------------
(* The reduction stated on the four-dimensional source itself.             *)

Is4D == Len(src.data.shape) = 4
ScanShape == Take2(src.data.shape)
Plane == Drop2(src.data.shape)
Executed == new_xdata # None

\* the pixels of the collection plane that at least one region covers
CoveredPixels == UNION {map_regions[i] : i \in 1..Len(map_regions)}

\* sum of source[r, c, h, w] over the pixels (h, w) of a set
RECURSIVE FrameSum(_, _)
FrameSum(rc, pixels) ==
    IF pixels = {} THEN 0
    ELSE LET p == CHOOSE q \in pixels : TRUE
         IN  src.data.at[rc \o p] + FrameSum(rc, pixels \ {p})

\* a list with its first two regions swapped, rotated by one, and with its
\* first region once more at the end: as every list is checked, these reach
\* every order and every repetition of the same regions
Rearranged(regions) ==
    IF regions = <<>> THEN {}
    ELSE {Tail(regions) \o <<Head(regions)>>,
          regions \o <<Head(regions)>>,
          IF Len(regions) < 2 THEN regions
          ELSE <<regions[2], regions[1]>> \o SubSeq(regions, 3, Len(regions))}

ResultIsSumOver(pixels) ==
    /\ new_xdata.data.shape = ScanShape
    /\ DOMAIN new_xdata.data.at = Indices(ScanShape)
    /\ \A rc \in Indices(ScanShape) : new_xdata.data.at[rc] = FrameSum(rc, pixels)

\* C1: with an empty map_regions list the result has shape (R, C) and each
\* result[r, c] is the sum of source[r, c, h, w] over the whole frame.
C1_EmptyListSumsWholeFrame ==
    (Executed /\ Is4D /\ map_regions = <<>>) => ResultIsSumOver(Indices(Plane))

C1_Witness ==
    /\ Executed /\ Is4D /\ map_regions = <<>>
    /\ src.data.shape = <<2, 2, 2, 2>>

\* C2: a non-empty list of regions that together cover no pixel gives exactly
\* the result of the empty list, the whole-frame sum, not a sum of nothing.
C2_AllFalseMasksFallBackToFullSum ==
    (Executed /\ Is4D /\ map_regions # <<>> /\ CoveredPixels = {}) =>
        /\ new_xdata = ExecuteEffect(src, <<>>, None).new_xdata
        /\ ResultIsSumOver(Indices(Plane))

C2_Witness ==
    /\ Executed /\ Is4D /\ Len(map_regions) = 2 /\ CoveredPixels = {}
    /\ \E rc \in Indices(ScanShape) : new_xdata.data.at[rc] # 0

\* C3: when the regions cover at least one pixel, result[r, c] is the sum of
\* source[r, c, h, w] over the covered pixels, each counted once; the order of
\* the regions and a repeated region make no difference.
C3_SumOverUnionOfMasks ==
    (Executed /\ Is4D /\ CoveredPixels # {}) =>
        /\ ResultIsSumOver(CoveredPixels)
        /\ \A other \in Rearranged(map_regions) :
              ExecuteEffect(src, other, None).new_xdata = new_xdata

\* two different regions that overlap and leave a pixel of the frame out
C3_Witness ==
    /\ Executed /\ Is4D /\ Len(map_regions) = 2
    /\ map_regions[1] # map_regions[2]
    /\ map_regions[1] \cap map_regions[2] # {}
    /\ CoveredPixels # Indices(Plane)

\* C4: a single mask true at exactly one pixel (h0, w0) gives
\* result[r, c] = source[r, c, h0, w0]; the (2,2,2,2) source holding 0..15
\* with the mask at (0,0) gives [[0,4],[8,12]].
C4_SinglePixelPicksThatElement ==
    /\ (Executed /\ Is4D /\ Len(map_regions) = 1 /\ Cardinality(map_regions[1]) = 1) =>
          \A p \in map_regions[1] : \A rc \in Indices(ScanShape) :
              new_xdata.data.at[rc] = src.data.at[rc \o p]
    /\ (Executed /\ src.data = ARangeArray(<<2, 2, 2, 2>>, 0)
                 /\ map_regions = <<{<<0, 0>>}>>) =>
          /\ new_xdata.data.at[<<0, 0>>] = 0 /\ new_xdata.data.at[<<0, 1>>] = 4
          /\ new_xdata.data.at[<<1, 0>>] = 8 /\ new_xdata.data.at[<<1, 1>>] = 12

\* a pixel off the diagonal, where row-major and column-major offsets differ
C4_Witness ==
    /\ Executed /\ Is4D /\ map_regions = <<{<<0, 1>>}>>
    /\ src.data.shape = <<2, 2, 2, 2>>

\* C5: a source that is not four-dimensional makes the reduction fail: no
\* result is stored or committed.
C5_NonFourDProducesNoResult ==
    ~Is4D => (new_xdata = None /\ target = None)

\* C7: the result carries exactly two dimensional calibrations, the source's
\* first and second in that order, and the source's intensity calibration;
\* the calibrations of the later axes do not appear in it.
C7_CalibrationsPassThrough ==
    Executed =>
        /\ Len(new_xdata.dimensional_calibrations) = 2
        /\ new_xdata.dimensional_calibrations[1] = src.dimensional_calibrations[1]
        /\ new_xdata.dimensional_calibrations[2] = src.dimensional_calibrations[2]
        /\ new_xdata.intensity_calibration = src.intensity_calibration
        /\ \A i \in 3..Len(src.dimensional_calibrations) :
              (\A k \in 1..2 : src.dimensional_calibrations[i] # src.dimensional_calibrations[k])
                => \A j \in 1..2 :
                      new_xdata.dimensional_calibrations[j] # src.dimensional_calibrations[i]

C7_Witness ==
    /\ Executed /\ Is4D
    /\ src.dimensional_calibrations[3] # src.dimensional_calibrations[1]
    /\ src.intensity_calibration.units = "counts"

\* C9: execute leaves the source (data and calibrations) and the regions as
\* they were; commit does not touch them either.
C9_InputsUnchanged ==
    [][src' = src /\ map_regions' = map_regions]_vars

C9_Witness ==
    /\ Executed /\ Is4D /\ map_regions # <<>>
    /\ CoveredPixels # {} /\ CoveredPixels # Indices(Plane)
    /\ target = new_xdata

----------------------------------------------------------------------------
(* The panel and the menu item.                                            *)

\* C8: once execute has run on the current source and regions, running it
\* again on the same inputs stores the same result, whatever an earlier
\* invocation stored before.
C8_SameInputsSameResult ==
    [][(~needs_update /\ ~needs_update' /\ src' = src /\ map_regions' = map_regions)
          => new_xdata' = new_xdata]_vars

\* the stored result is of the current inputs, and the result committed
\* before, of other regions, differs from it
C8_Witness ==
    /\ ~needs_update /\ Executed /\ map_regions # <<>>
    /\ target # None /\ target # new_xdata

\* C10: clicking the button with graphics selected leaves in map_regions
\* exactly the selected graphics, one entry each, and none of the regions
\* stored before; with no target display or no selection it changes nothing.
C10_SelectReplacesRegions ==
    [][SelectButtonClicked =>
          IF target_display /\ selected_graphics # <<>>
          THEN /\ Len(map_regions') = Len(selected_graphics)
               /\ \A i \in 1..Len(selected_graphics) :
                     \E j \in 1..Len(map_regions') : map_regions'[j] = selected_graphics[i]
               /\ \A j \in 1..Len(map_regions') :
                     \E i \in 1..Len(selected_graphics) : map_regions'[j] = selected_graphics[i]
          ELSE map_regions' = map_regions]_vars

\* two stored regions were replaced by the one selected graphic, a third one
C10_Witness ==
    /\ target_display /\ selected_graphics = <<{}>>
    /\ map_regions = <<{}>> /\ needs_update /\ Executed
    /\ new_xdata = ExecuteEffect(src, <<{<<0, 0>>}, {<<0, 0>>, <<0, 1>>}>>, None).new_xdata

\* C6: when menu_item_execute catches map_4D's error for data that is not
\* 4D, a tool tip with the wrong-shape message is shown and no source/map
\* entry is recorded.
C6_WrongShapeTipShown ==
    [][(MenuItemExecute /\ raised' # "") =>
          /\ \E i \in 1..Len(tool_tip_boxes') : tool_tip_boxes'[i] = WrongShapeTip
          /\ computation_data_items' = computation_data_items]_vars

====
